---- MODULE Spec2Model ----
(***************************************************************************)
(* Model of vsg::RecordAndSubmitTask (src/vsg/app/RecordAndSubmitTask.cpp) *)
(* the per-frame fence ring and the submit() protocol                      *)
(* start -> early transfer -> record -> late transfer + finish,            *)
(* together with the device that completes accepted submissions, and of    *)
(* vsg::ViewDependentState (src/vsg/state/ViewDependentState.cpp): the     *)
(* lights collected during a traversal and packed into lightData; and of   *)
(* vsg::updateTasks, which brings a list of tasks up to a compile result.  *)
(*                                                                         *)
(* C++ containers are modelled as functions over 0..size-1 so that the     *)
(* source's zero-based indices are kept.                                   *)
(***************************************************************************)
EXTENDS Integers, Sequences, FiniteSets, TLC

\* ---------------------------------------------------------------- bounds
MaxBuffers == 2        \* Spec: numBuffers ranges over 1..MaxBuffers
MaxAdvances == 3       \* Spec: advance() is called at most MaxAdvances times
MaxRingBuffers == 4    \* SpecRing: numBuffers ranges over 1..MaxRingBuffers
MaxRingAdvances == 9   \* SpecRing: advance() is called at most MaxRingAdvances times
MaxProbe == 2          \* index(k) and fence(k) are probed for k up to numBuffers + MaxProbe
MaxNumberLights == 3   \* SpecLights: maxNumberLights ranges over 1..MaxNumberLights
MaxLights == 2         \* SpecLights: a traversal collects at most MaxLights lights
MaxTasks == 2          \* SpecTasks: updateTasks is given at most MaxTasks tasks
MaxSlot == 2           \* SpecTasks: a compile result reports a maxSlot in 0..MaxSlot
MaxUpdates == 2        \* SpecTasks, SpecBins: updateTasks is called at most MaxUpdates times

\* ------------------------------------------------------------- constants
NullFence == 0         \* nullptr returned by fence(k)

VK_SUCCESS == "VK_SUCCESS"
ErrorCodes == {"VK_ERROR_DEVICE_LOST"}
NoResult == "none"     \* submit() has not returned yet

PRIMARY == "VK_COMMAND_BUFFER_LEVEL_PRIMARY"
SECONDARY == "VK_COMMAND_BUFFER_LEVEL_SECONDARY"

\* the task is configured with no, one or two command graphs
GraphCounts == 0..2

VARIABLES
    numBuffers,                \* the numBuffers argument of the constructor
    _currentFrameIndex,        \* RecordAndSubmitTask::_currentFrameIndex
    _indices,                  \* RecordAndSubmitTask::_indices, 0..N-1 -> slot
    _fences,                   \* RecordAndSubmitTask::_fences, 0..N-1 -> fence object
    commandGraphs,             \* RecordAndSubmitTask::commandGraphs: each graph has an
                               \* id and the level of the command buffers it records
    signalSemaphores,          \* RecordAndSubmitTask::signalSemaphores
    waitSemaphores,            \* RecordAndSubmitTask::waitSemaphores
    windows,                   \* RecordAndSubmitTask::windows
    dependentCommandBuffers,   \* per fence object: Fence::dependentCommandBuffers()
    dependentSemaphores,       \* per fence object: Fence::dependentSemaphores()
    signaled,                  \* per fence object: the device signalled the fence
    inflight,                  \* per fence object: accepted submissions not yet complete
    earlyCompleted,            \* earlyTransferTask->currentTransferCompletedSemaphore is set
    lateCompleted,             \* lateTransferTask->currentTransferCompletedSemaphore is set
    earlyWaitSemaphores,       \* earlyTransferTask->waitSemaphores
    lateWaitSemaphores,        \* lateTransferTask->waitSemaphores
    pc,                        \* position of the host inside submit()
    recordedCommandBuffers,    \* the RecordedCommandBuffers of the running submit()
    result,                    \* status returned by the last submit()
    submitInfo,                \* the VkSubmitInfo handed to queue->submit by this call
    trace,                     \* calls made by the running / last submit(), in order
    numAdvances,               \* number of advance() calls so far
    maxNumberLights,           \* the maxNumberLights argument of ViewDependentState::init
    lightData,                 \* ViewDependentState::lightData, 0..maxNumberLights-1 -> vec4
    lightDataDirty,            \* lightData->dirty() has been called
    ambientLights,             \* ViewDependentState::ambientLights
    directionalLights,         \* ViewDependentState::directionalLights
    pointLights,               \* ViewDependentState::pointLights
    spotLights,                \* ViewDependentState::spotLights
    light_itr,                 \* offset of light_itr from lightData->begin() at the end
                               \* of the last pack()
    lastCall,                  \* the last call made on the ViewDependentState
    tasks,                     \* the tasks argument of updateTasks: of each task the
                               \* maxSlot of its command graphs, its databasePager and
                               \* whether its transfer tasks were assigned dynamic data
    pagers,                    \* the DatabasePager objects: of each the number of
                               \* start() calls and whether compileManager is assigned
    viewBins,                  \* per view: View::bins
    compileResult,             \* the compileResult argument of the last updateTasks
    maxReported,               \* the largest compileResult.maxSlot of all calls so far
    numUpdates                 \* number of updateTasks calls so far

ringVars == <<_currentFrameIndex, _indices, _fences>>
configVars == <<numBuffers, commandGraphs, signalSemaphores, waitSemaphores, windows>>
fenceVars == <<dependentCommandBuffers, dependentSemaphores, signaled, inflight>>
transferVars == <<earlyCompleted, lateCompleted, earlyWaitSemaphores, lateWaitSemaphores>>
callVars == <<pc, recordedCommandBuffers, result, submitInfo, trace>>
taskVars == <<ringVars, configVars, fenceVars, transferVars, callVars, numAdvances>>
lightContainers == <<ambientLights, directionalLights, pointLights, spotLights>>
lightVars == <<maxNumberLights, lightData, lightDataDirty, lightContainers, light_itr, lastCall>>
updateVars == <<tasks, pagers, viewBins, compileResult, maxReported, numUpdates>>
vars == <<taskVars, lightVars, updateVars>>

\* ---------------------------------------------------------------- helpers
Size(f) == Cardinality(DOMAIN f)

Last(s) == s[Len(s)]

Event(op, arg, res) == [op |-> op, arg |-> arg, res |-> res]

Failed(e) == e.res \in ErrorCodes

HasCall(calls, op) == \E i \in 1..Len(calls) : calls[i].op = op

\* the status a function returns after making these calls: the failure of its
\* last call, or success
StatusOf(calls) == IF calls # <<>> /\ Failed(Last(calls)) THEN Last(calls).res ELSE VK_SUCCESS

\* acquired: the windows whose imageIndex() was in range when finish() ran
NoSubmitInfo == [issued |-> FALSE, fence |-> NullFence, waits |-> <<>>, stages |-> <<>>,
                 commandBuffers |-> <<>>, signals |-> <<>>, acquired |-> {}]

\* Semaphore::pipelineStageFlags() of a semaphore
StageOf(s) ==
    IF s \in {"earlyTransferCompleted", "lateTransferCompleted"}
    THEN "VERTEX_INPUT_OR_FRAGMENT"
    ELSE IF s = "extWait" THEN "ALL_COMMANDS"
    ELSE IF s = "extWait2" THEN "TOP_OF_PIPE"
    ELSE "COLOR_ATTACHMENT_OUTPUT"

\* window->frame(imageIndex).imageAvailableSemaphore of a window
ImageAvailable(window) == IF window = "window" THEN "imageAvailable" ELSE "imageAvailable2"

\* ------------------------------------------------------------------- Init
\* RecordAndSubmitTask::RecordAndSubmitTask for numBuffers in buffers, with
\* the public lists of the task set up by the application
ConstructedWith(buffers, windowLists, waitLists, signalLists) ==
    \E n \in buffers, g \in GraphCounts :
      \E levels \in [1..g -> {PRIMARY, SECONDARY}] :
        /\ numBuffers = n
        /\ _currentFrameIndex = n
        /\ _indices = [i \in 0..(n - 1) |-> n]
        /\ _fences = [i \in 0..(n - 1) |-> i + 1]
        /\ commandGraphs = [i \in 1..g |-> [id |-> i, level |-> levels[i]]]
        /\ signalSemaphores \in signalLists
        /\ waitSemaphores \in waitLists
        /\ windows \in windowLists
        /\ dependentCommandBuffers = [f \in 1..n |-> <<>>]
        /\ dependentSemaphores = [f \in 1..n |-> <<>>]
        /\ signaled = [f \in 1..n |-> FALSE]
        /\ inflight = [f \in 1..n |-> 0]
        /\ earlyCompleted = FALSE
        /\ lateCompleted = FALSE
        /\ earlyWaitSemaphores = <<>>
        /\ lateWaitSemaphores = <<>>
        /\ pc = "idle"
        /\ recordedCommandBuffers = <<>>
        /\ result = NoResult
        /\ submitInfo = NoSubmitInfo
        /\ trace = <<>>
        /\ numAdvances = 0

\* a task with one window, one wait semaphore and at most one signal semaphore
Constructed(maxN) ==
    ConstructedWith(1..maxN, {<<"window">>}, {<<"extWait">>}, {<<>>, <<"extSignal">>})

\* a vec4 of lightData: what it was computed from
CountsVec(a, d, p, s) == [kind |-> "counts", light |-> "none", counts |-> <<a, d, p, s>>]
LightVec(kind, light) == [kind |-> kind, light |-> light, counts |-> <<>>]

\* vec4(): all four components are zero, as are the counts of no lights
ZeroVec == CountsVec(0, 0, 0, 0)

\* ViewDependentState::ViewDependentState for maxNumberLights in capacities
ViewDependentStateInit(capacities) ==
    \E capacity \in capacities :
        /\ maxNumberLights = capacity
        /\ lightData = [i \in 0..(capacity - 1) |-> ZeroVec]
        /\ lightDataDirty = FALSE
        /\ ambientLights = <<>>
        /\ directionalLights = <<>>
        /\ pointLights = <<>>
        /\ spotLights = <<>>
        /\ light_itr = 0
        /\ lastCall = "init"

\* the views that compile results refer to
Views == {"view1", "view2"}

\* ref_ptr<DatabasePager>(): no pager
NoPager == 0

\* the pager that the application has given to some of the tasks
ApplicationPager == 1

\* a CompileResult as default constructed
NoCompileResult ==
    [earlyDynamicData |-> FALSE, lateDynamicData |-> FALSE, maxSlot |-> 0,
     containsPagedLOD |-> FALSE, views |-> [v \in {} |-> {}]]

\* the tasks, pagers and views before the first updateTasks
UpdateTasksInit(taskLists, binLists) ==
    /\ tasks \in taskLists
    /\ pagers = <<[starts |-> 1, compileManager |-> TRUE]>>
    /\ viewBins \in [Views -> binLists]
    /\ compileResult = NoCompileResult
    /\ maxReported = 0
    /\ numUpdates = 0

\* no task is given to updateTasks
NoTasks == UpdateTasksInit({<<>>}, {<<>>})

Init == Constructed(MaxBuffers) /\ ViewDependentStateInit({1}) /\ NoTasks

\* ------------------------------------------------------------ ring (4.1)
\* mutant of Index: an out of range position is clamped to the oldest entry
IndexClamped(relativeFrameIndex) ==
    IF relativeFrameIndex < Size(_indices)
    THEN _indices[relativeFrameIndex]
    ELSE _indices[Size(_indices) - 1]

\* RecordAndSubmitTask::index
Index(relativeFrameIndex) ==
    IF relativeFrameIndex < Size(_indices) THEN _indices[relativeFrameIndex] ELSE Size(_indices)

\* mutant of Fence: the relative frame index is used as the slot
FenceDirect(relativeFrameIndex) ==
    IF relativeFrameIndex < Size(_fences) THEN _fences[relativeFrameIndex] ELSE NullFence

\* RecordAndSubmitTask::fence
Fence(relativeFrameIndex) ==
    LET i == Index(relativeFrameIndex)
    IN  IF i < Size(_fences) THEN _fences[i] ELSE NullFence

\* mutant of NextFrameIndex: the incremented index is not wrapped
NextFrameIndexNoWrap ==
    IF _currentFrameIndex >= Size(_indices) THEN 0 ELSE _currentFrameIndex + 1

\* the value of _currentFrameIndex after advance()
NextFrameIndex ==
    IF _currentFrameIndex >= Size(_indices)
    THEN 0
    ELSE IF _currentFrameIndex + 1 > Size(_indices) - 1 THEN 0 ELSE _currentFrameIndex + 1

\* mutant of ShiftedIndices: the history is shifted in ascending order, which
\* copies the previous frame's slot into every older position
ShiftedIndicesAscending ==
    IF _currentFrameIndex >= Size(_indices)
    THEN [_indices EXCEPT ![0] = NextFrameIndex]
    ELSE [i \in DOMAIN _indices |-> IF i = 0 THEN NextFrameIndex ELSE _indices[0]]

\* the value of _indices after advance()
ShiftedIndices ==
    IF _currentFrameIndex >= Size(_indices)
    THEN [_indices EXCEPT ![0] = NextFrameIndex]
    ELSE [i \in DOMAIN _indices |-> IF i = 0 THEN NextFrameIndex ELSE _indices[i - 1]]

\* RecordAndSubmitTask::advance
Advance ==
    /\ pc = "idle"
    /\ _currentFrameIndex' = NextFrameIndex
    /\ _indices' = ShiftedIndices
    /\ numAdvances' = numAdvances + 1
    \* the host drops what the previous frame's submit() returned and logged
    /\ recordedCommandBuffers' = <<>>
    /\ result' = NoResult
    /\ submitInfo' = NoSubmitInfo
    /\ trace' = <<>>
    /\ UNCHANGED <<_fences, configVars, fenceVars, transferVars, pc>>

\* ------------------------------------------------ collaborators of the task
\* Fence::hasDependencies
HasDependencies(f) ==
    Len(dependentSemaphores[f]) + Len(dependentCommandBuffers[f]) > 0

\* Fence::wait with an unbounded timeout: success needs the fence to be
\* signalled, a device-level error can be reported at any time
WaitResults(f) ==
    (IF signaled[f] THEN {VK_SUCCESS} ELSE {}) \cup ErrorCodes

\* TransferTask::transferDynamicData: nothing to transfer ("idle"), a transfer
\* was submitted and its completion semaphore set ("sent"), or an error
TransferOutcomes == {"idle", "sent"} \cup ErrorCodes

TransferStatus(outcome) == IF outcome \in ErrorCodes THEN outcome ELSE VK_SUCCESS

\* CommandGraph::record appends a command buffer of the graph's level, or
\* nothing when the graph has nothing to draw
RecordOutcomes == {"none", "buffer"}

\* Queue::submit
QueueResults == {VK_SUCCESS} \cup ErrorCodes

\* --------------------------------------------------- submit protocol (4.2)
\* mutant of StartCalls: the fence is never waited on
StartCallsNoWait(current_fence, waitResult) ==
    <<Event("hasDependencies", current_fence,
            IF HasDependencies(current_fence) THEN "true" ELSE "false")>>

\* mutant of StartCalls: the result of the wait is ignored
StartCallsResetOnError(current_fence, waitResult) ==
    IF HasDependencies(current_fence)
    THEN <<Event("hasDependencies", current_fence, "true"),
           Event("wait", current_fence, waitResult),
           Event("resetFenceAndDependencies", current_fence, NoResult)>>
    ELSE <<Event("hasDependencies", current_fence, "false")>>

\* mutant of StartCalls: the fence is waited on whether it has dependencies or not
StartCallsAlwaysWait(current_fence, waitResult) ==
    <<Event("hasDependencies", current_fence,
            IF HasDependencies(current_fence) THEN "true" ELSE "false"),
      Event("wait", current_fence, waitResult)>>
    \o (IF waitResult # VK_SUCCESS
        THEN <<>>
        ELSE <<Event("resetFenceAndDependencies", current_fence, NoResult)>>)

\* the calls start() makes on the current fence, in order
StartCalls(current_fence, waitResult) ==
    IF HasDependencies(current_fence)
    THEN IF waitResult # VK_SUCCESS
         THEN <<Event("hasDependencies", current_fence, "true"),
                Event("wait", current_fence, waitResult)>>
         ELSE <<Event("hasDependencies", current_fence, "true"),
                Event("wait", current_fence, waitResult),
                Event("resetFenceAndDependencies", current_fence, NoResult)>>
    ELSE <<Event("hasDependencies", current_fence, "false")>>

\* the state changes of start()
StartBody(waitResult) ==
    LET current_fence == Fence(0)
        calls == StartCalls(current_fence, waitResult)
    IN
    /\ pc = "idle"
    /\ current_fence # NullFence
    /\ IF HasCall(calls, "wait")
       THEN waitResult \in WaitResults(current_fence)
       ELSE waitResult = VK_SUCCESS
    /\ earlyCompleted' = FALSE
    /\ lateCompleted' = FALSE
    /\ IF HasCall(calls, "resetFenceAndDependencies")
       THEN /\ dependentCommandBuffers' =
                    [dependentCommandBuffers EXCEPT ![current_fence] = <<>>]
            /\ dependentSemaphores' =
                    [dependentSemaphores EXCEPT ![current_fence] = <<>>]
            /\ signaled' = [signaled EXCEPT ![current_fence] = FALSE]
            /\ UNCHANGED inflight
       ELSE UNCHANGED fenceVars
    /\ trace' = calls
    /\ IF StatusOf(calls) # VK_SUCCESS
       THEN result' = StatusOf(calls) /\ pc' = "idle"
       ELSE result' = NoResult /\ pc' = "early"
    \* a new call of submit(): nothing recorded, nothing handed to the queue
    /\ recordedCommandBuffers' = <<>>
    /\ submitInfo' = NoSubmitInfo
    /\ UNCHANGED <<configVars, earlyWaitSemaphores, lateWaitSemaphores, numAdvances>>

\* submit(): earlyTransferTask->transferDynamicData()
EarlyTransfer(outcome) ==
    /\ pc = "early"
    /\ outcome \in TransferOutcomes
    /\ trace' = Append(trace, Event("earlyTransfer", 0, TransferStatus(outcome)))
    /\ IF outcome \in ErrorCodes
       THEN /\ result' = outcome
            /\ pc' = "idle"
            /\ UNCHANGED <<earlyCompleted, earlyWaitSemaphores>>
       ELSE /\ pc' = "record"
            /\ earlyCompleted' = (outcome = "sent")
            /\ earlyWaitSemaphores' = IF outcome = "sent" THEN <<>> ELSE earlyWaitSemaphores
            /\ UNCHANGED result
    /\ UNCHANGED <<ringVars, configVars, fenceVars, lateCompleted, lateWaitSemaphores,
                   recordedCommandBuffers, submitInfo, numAdvances>>

\* mutant of RecordCalls: the command graphs are visited last to first
RECURSIVE RecordCallsReversed(_, _)
RecordCallsReversed(from, outcomes) ==
    IF from > Len(commandGraphs)
    THEN <<>>
    ELSE RecordCallsReversed(from + 1, outcomes)
         \o <<Event("record", commandGraphs[from].id, outcomes[from])>>

\* the record calls made on commandGraphs[from..], in list order
RECURSIVE RecordCalls(_, _)
RecordCalls(from, outcomes) ==
    IF from > Len(commandGraphs)
    THEN <<>>
    ELSE <<Event("record", commandGraphs[from].id, outcomes[from])>>
         \o RecordCalls(from + 1, outcomes)

\* the command buffers appended by a sequence of record calls
RECURSIVE RecordedBy(_)
RecordedBy(calls) ==
    IF calls = <<>>
    THEN <<>>
    ELSE (IF Head(calls).res = "none"
          THEN <<>>
          ELSE <<[graph |-> Head(calls).arg,
                  level |-> commandGraphs[Head(calls).arg].level]>>)
         \o RecordedBy(Tail(calls))

\* RecordAndSubmitTask::record, called by submit()
Record(outcomes) ==
    /\ pc = "record"
    /\ outcomes \in [1..Len(commandGraphs) -> RecordOutcomes]
    /\ recordedCommandBuffers' = RecordedBy(RecordCalls(1, outcomes))
    /\ trace' = trace \o RecordCalls(1, outcomes)
    /\ pc' = "finish"
    /\ UNCHANGED <<ringVars, configVars, fenceVars, transferVars, result, submitInfo, numAdvances>>

\* mutant of SelectLevel: the buffers are not filtered by level
SelectAnyLevel(buffers, level) == buffers

\* the command buffers of one level, in order
SelectLevel(buffers, level) == SelectSeq(buffers, LAMBDA b : b.level = level)

\* image available semaphores of the windows whose imageIndex is in range
RECURSIVE WindowWaits(_, _)
WindowWaits(from, acquired) ==
    IF from > Len(windows)
    THEN <<>>
    ELSE (IF from \in acquired THEN <<ImageAvailable(windows[from])>> ELSE <<>>)
         \o WindowWaits(from + 1, acquired)

\* mutant of WaitList: the task's wait semaphores are put before the windows
WaitListExternalFirst(lateSet, acquired) ==
    (IF earlyCompleted THEN <<"earlyTransferCompleted">> ELSE <<>>)
    \o (IF lateSet THEN <<"lateTransferCompleted">> ELSE <<>>)
    \o waitSemaphores
    \o WindowWaits(1, acquired)

\* vk_waitSemaphores of finish(); lateSet: the late transfer set its
\* currentTransferCompletedSemaphore
WaitList(lateSet, acquired) ==
    (IF earlyCompleted THEN <<"earlyTransferCompleted">> ELSE <<>>)
    \o (IF lateSet THEN <<"lateTransferCompleted">> ELSE <<>>)
    \o WindowWaits(1, acquired)
    \o waitSemaphores

\* vk_waitStages of finish()
WaitStages(waits) == [i \in 1..Len(waits) |-> StageOf(waits[i])]

\* vk_signalSemaphores of finish()
SignalList(lateSet) ==
    (IF earlyCompleted THEN <<"earlyTransferConsumerCompleted">> ELSE <<>>)
    \o (IF lateSet THEN <<"lateTransferConsumerCompleted">> ELSE <<>>)
    \o signalSemaphores

\* mutant of ConsumerWaits: the consumer completed semaphore is pushed whether
\* the transfer task completed a transfer or not
ConsumerWaitsAlways(list, active, semaphore) == Append(list, semaphore)

\* waitSemaphores of a transfer task after finish() built its submission
ConsumerWaits(list, active, semaphore) ==
    IF active THEN Append(list, semaphore) ELSE list

\* mutant of FinishCalls: an empty set of recorded buffers is submitted too
FinishCallsSubmitEmpty(current_fence, lateOutcome, queueResult) ==
    IF lateOutcome \in ErrorCodes
    THEN <<Event("lateTransfer", 0, lateOutcome)>>
    ELSE <<Event("lateTransfer", 0, VK_SUCCESS),
           Event("queueSubmit", current_fence, queueResult)>>

\* mutant of FinishCalls: the status of the late transfer is not checked
FinishCallsIgnoringLate(current_fence, lateOutcome, queueResult) ==
    IF recordedCommandBuffers = <<>>
    THEN <<Event("lateTransfer", 0, TransferStatus(lateOutcome))>>
    ELSE <<Event("lateTransfer", 0, TransferStatus(lateOutcome)),
           Event("queueSubmit", current_fence, queueResult)>>

\* the calls finish() makes on the late transfer task and the queue, in order
FinishCalls(current_fence, lateOutcome, queueResult) ==
    IF lateOutcome \in ErrorCodes
    THEN <<Event("lateTransfer", 0, lateOutcome)>>
    ELSE IF recordedCommandBuffers = <<>>
         THEN <<Event("lateTransfer", 0, VK_SUCCESS)>>
         ELSE <<Event("lateTransfer", 0, VK_SUCCESS),
                Event("queueSubmit", current_fence, queueResult)>>

\* RecordAndSubmitTask::finish, called by submit()
Finish(lateOutcome, acquired, queueResult) ==
    LET current_fence == Fence(0)
        calls == FinishCalls(current_fence, lateOutcome, queueResult)
        submits == HasCall(calls, "queueSubmit")
        lateSet == (lateOutcome = "sent")
        vk_commandBuffers == SelectLevel(recordedCommandBuffers, PRIMARY)
        vk_waitSemaphores == WaitList(lateSet, acquired)
        vk_waitStages == WaitStages(vk_waitSemaphores)
        vk_signalSemaphores == SignalList(lateSet)
        lateWaitAfterTransfer == IF lateSet THEN <<>> ELSE lateWaitSemaphores
    IN
    /\ pc = "finish"
    /\ lateOutcome \in TransferOutcomes
    /\ acquired \in SUBSET (1..Len(windows))
    /\ queueResult \in QueueResults
    /\ IF submits THEN TRUE ELSE acquired = {} /\ queueResult = VK_SUCCESS
    /\ trace' = trace \o calls
    /\ result' = StatusOf(calls)
    /\ pc' = "idle"
    /\ lateCompleted' = lateSet
    /\ IF submits
       THEN /\ dependentCommandBuffers' =
                    [dependentCommandBuffers EXCEPT ![current_fence] =
                         @ \o recordedCommandBuffers]
            /\ dependentSemaphores' =
                    [dependentSemaphores EXCEPT ![current_fence] = signalSemaphores]
            /\ earlyWaitSemaphores' =
                    ConsumerWaits(earlyWaitSemaphores, earlyCompleted,
                                  "earlyTransferConsumerCompleted")
            /\ lateWaitSemaphores' =
                    ConsumerWaits(lateWaitAfterTransfer, lateSet,
                                  "lateTransferConsumerCompleted")
            /\ submitInfo' = [issued |-> TRUE, fence |-> current_fence,
                              waits |-> vk_waitSemaphores, stages |-> vk_waitStages,
                              commandBuffers |-> vk_commandBuffers,
                              signals |-> vk_signalSemaphores,
                              acquired |-> acquired]
            /\ inflight' = IF Last(calls).res = VK_SUCCESS
                           THEN [inflight EXCEPT ![current_fence] = @ + 1]
                           ELSE inflight
            /\ UNCHANGED signaled
       ELSE /\ lateWaitSemaphores' = lateWaitAfterTransfer
            /\ UNCHANGED <<fenceVars, earlyWaitSemaphores, submitInfo>>
    /\ UNCHANGED <<ringVars, configVars, earlyCompleted, recordedCommandBuffers, numAdvances>>

\* mutant of Start: start() also moves the ring on to the next frame
StartAdvancing(waitResult) ==
    /\ StartBody(waitResult)
    /\ _currentFrameIndex' = NextFrameIndex
    /\ _indices' = ShiftedIndices
    /\ UNCHANGED _fences

\* RecordAndSubmitTask::start, called by submit()
Start(waitResult) ==
    /\ StartBody(waitResult)
    /\ UNCHANGED ringVars

\* the device completes one accepted submission and signals its fence
DeviceComplete(f) ==
    /\ f \in DOMAIN inflight
    /\ inflight[f] > 0
    /\ inflight' = [inflight EXCEPT ![f] = @ - 1]
    /\ signaled' = [signaled EXCEPT ![f] = TRUE]
    /\ UNCHANGED <<ringVars, configVars, dependentCommandBuffers, dependentSemaphores,
                   transferVars, callVars, numAdvances>>

\* --------------------------------------------- ViewDependentState (4.3)
\* the lights a traversal can meet
Lights == {"light1", "light2"}

\* the traversal meets a light of the category and pushes it on its container
AddLight(category, light) ==
    /\ lastCall # "crashed"
    /\ Len(ambientLights) + Len(directionalLights)
         + Len(pointLights) + Len(spotLights) < MaxLights
    /\ ambientLights' =
          IF category = "ambient" THEN Append(ambientLights, light) ELSE ambientLights
    /\ directionalLights' =
          IF category = "directional" THEN Append(directionalLights, light)
          ELSE directionalLights
    /\ pointLights' =
          IF category = "point" THEN Append(pointLights, light) ELSE pointLights
    /\ spotLights' =
          IF category = "spot" THEN Append(spotLights, light) ELSE spotLights
    /\ lastCall' = "add"
    /\ UNCHANGED <<maxNumberLights, lightData, lightDataDirty, light_itr>>

\* ViewDependentState::clear
Clear ==
    /\ lastCall # "crashed"
    /\ ambientLights' = <<>>
    /\ directionalLights' = <<>>
    /\ pointLights' = <<>>
    /\ spotLights' = <<>>
    /\ lastCall' = "clear"
    /\ UNCHANGED <<maxNumberLights, lightData, lightDataDirty, light_itr>>

\* the vec4s that pack() writes for the lights of one container: for each
\* light in turn, one vec4 of each of the kinds
RECURSIVE LightRecords(_, _)
LightRecords(lights, kinds) ==
    IF lights = <<>> THEN <<>>
    ELSE [i \in 1..Len(kinds) |-> LightVec(kinds[i], Head(lights))]
         \o LightRecords(Tail(lights), kinds)

\* the vec4s that pack() writes through light_itr, in the order written
PackedRecords ==
    <<CountsVec(Len(ambientLights), Len(directionalLights),
                Len(pointLights), Len(spotLights))>>
    \o LightRecords(ambientLights, <<"color">>)
    \o LightRecords(directionalLights, <<"color", "direction">>)
    \o LightRecords(pointLights, <<"color", "position">>)
    \o LightRecords(spotLights, <<"color", "position_cosInner", "direction_cosOuter">>)

\* mutant of Written: the vec4s that pack() does not write are zeroed
WrittenOverZeroes(records) ==
    [i \in DOMAIN lightData |->
        IF i < Len(records) THEN records[i + 1] ELSE ZeroVec]

\* lightData after the vec4s have been written from lightData->begin() on;
\* a vec4 written at an offset that is not below the size of the array is
\* not written into the array
Written(records) ==
    [i \in DOMAIN lightData |->
        IF i < Len(records) THEN records[i + 1] ELSE lightData[i]]

\* ViewDependentState::pack. Writing past the end of lightData is undefined:
\* the process either goes on, with memory outside of the array overwritten,
\* or it is stopped.
Pack(outcome) ==
    /\ lastCall # "crashed"
    /\ IF Len(PackedRecords) > maxNumberLights
       THEN outcome \in {"overwrites", "crashes"}
       ELSE outcome = "returns"
    /\ lightDataDirty' = TRUE
    /\ lightData' = Written(PackedRecords)
    /\ light_itr' = Len(PackedRecords)
    /\ lastCall' = IF outcome = "crashes" THEN "crashed" ELSE "pack"
    /\ UNCHANGED <<maxNumberLights, lightContainers>>

\* ------------------------------------------------------------ updateTasks
ASCENDING == "ASCENDING"
NO_SORT == "NO_SORT"
DESCENDING == "DESCENDING"

\* mutant of MaxSlotAfter: the reported maxSlot is assigned without the test
MaxSlotAssigned(current, reported) == reported

\* commandGraph->maxSlot after the maxSlot of a compile result was reported
MaxSlotAfter(current, reported) ==
    IF reported > current THEN reported ELSE current

\* the databasePager found by the first loop over the tasks: that of the
\* first task that has one
FoundPager ==
    LET holders == {t \in 1..Len(tasks) : tasks[t].databasePager # NoPager}
    IN  IF holders = {} THEN NoPager
        ELSE tasks[CHOOSE t \in holders : \A u \in holders : t <= u].databasePager

\* mutant of SortOrderOf: the sort orders of negative and positive bin
\* numbers are exchanged
SortOrderOfExchanged(binNumber) ==
    IF binNumber < 0 THEN DESCENDING
    ELSE IF binNumber = 0 THEN NO_SORT ELSE ASCENDING

\* the sort order of a bin created for a bin number
SortOrderOf(binNumber) ==
    IF binNumber < 0 THEN ASCENDING
    ELSE IF binNumber = 0 THEN NO_SORT ELSE DESCENDING

\* Bin::create(binNumber, sortOrder)
Bin(binNumber, sortOrder) == [binNumber |-> binNumber, sortOrder |-> sortOrder]

\* view->bins after the loop over binDetails.indices, a set that is gone
\* through in ascending order
RECURSIVE BinsAfter(_, _)
BinsAfter(bins, indices) ==
    IF indices = {} THEN bins
    ELSE LET binNumber == CHOOSE b \in indices : \A c \in indices : b <= c
             binNumberMatched == \E i \in 1..Len(bins) : bins[i].binNumber = binNumber
         IN  BinsAfter(IF binNumberMatched THEN bins
                       ELSE Append(bins, Bin(binNumber, SortOrderOf(binNumber))),
                       indices \ {binNumber})

\* vsg::updateTasks(tasks, compileManager, compileResult), compiled being
\* the compileResult argument
UpdateTasks(compiled) ==
    LET found == FoundPager
        creates == compiled.containsPagedLOD /\ found = NoPager
        created == Len(pagers) + 1
    IN  /\ tasks' =
              [t \in 1..Len(tasks) |->
                  [earlyData |-> tasks[t].earlyData \/ compiled.earlyDynamicData,
                   lateData |-> tasks[t].lateData \/ compiled.lateDynamicData,
                   maxSlots |-> [g \in 1..Len(tasks[t].maxSlots) |->
                                   MaxSlotAfter(tasks[t].maxSlots[g], compiled.maxSlot)],
                   databasePager |->
                       IF creates /\ tasks[t].databasePager = NoPager
                       THEN created ELSE tasks[t].databasePager]]
        /\ pagers' =
              IF creates
              THEN Append(pagers, [starts |-> 1, compileManager |-> tasks # <<>>])
              ELSE pagers
        /\ viewBins' =
              [v \in Views |->
                  IF v \in DOMAIN compiled.views
                  THEN BinsAfter(viewBins[v], compiled.views[v])
                  ELSE viewBins[v]]
        /\ compileResult' = compiled
        /\ maxReported' = IF compiled.maxSlot > maxReported THEN compiled.maxSlot
                          ELSE maxReported
        /\ numUpdates' = numUpdates + 1

\* ---------------------------------------------------------------- claims
Probes == 0..(numBuffers + MaxProbe)

Min(a, b) == IF a < b THEN a ELSE b

RECURSIVE SumInflight(_)
SumInflight(n) == IF n = 0 THEN 0 ELSE inflight[n] + SumInflight(n - 1)

\* C1: a fence is never handed to the queue while an earlier submission
\* guarded by it is incomplete, so every fence guards at most one incomplete
\* submission and at most numBuffers submissions are in flight.
C1_FenceNotResubmittedInFlight ==
    /\ \A f \in DOMAIN inflight : inflight[f] <= 1
    /\ SumInflight(numBuffers) <= numBuffers

\* the host was throttled: every fence guards a submission in flight after
\* the ring wrapped around and start() waited for the reused fence
C1_Witness ==
    /\ numBuffers >= 2
    /\ numAdvances > numBuffers
    /\ \A f \in DOMAIN inflight : inflight[f] = 1
    /\ HasCall(trace, "wait")
    /\ result = VK_SUCCESS

\* a step of start(): from idle, neither advance() nor the device
C2_StartStep == pc = "idle" /\ UNCHANGED <<numAdvances, inflight>>

\* C2: when the current fence has dependencies start() waits on it; a failed
\* wait is returned and leaves the fence's dependent command buffers and
\* semaphores unchanged, and the dependencies are released only after a wait
\* that reported success.
C2_ReleaseOnlyAfterSuccessfulWait ==
    [][(C2_StartStep /\ Fence(0) # NullFence /\ HasDependencies(Fence(0))) =>
          /\ Len(trace') >= 2
          /\ trace'[2].op = "wait"
          /\ trace'[2].arg = Fence(0)
          /\ IF Failed(trace'[2])
             THEN /\ Len(trace') = 2
                  /\ result' = trace'[2].res
                  /\ pc' = "idle"
                  /\ UNCHANGED <<dependentCommandBuffers, dependentSemaphores>>
             ELSE /\ Len(trace') = 3
                  /\ trace'[3].op = "resetFenceAndDependencies"
                  /\ trace'[3].arg = Fence(0)
                  /\ ~HasDependencies(Fence(0))'
      ]_vars

\* start() returned the error of the wait and the fence kept its dependencies
C2_Witness ==
    /\ pc = "idle"
    /\ Len(trace) = 2
    /\ trace[2].op = "wait"
    /\ result \in ErrorCodes
    /\ dependentCommandBuffers[Fence(0)] # <<>>

\* the place of a call in the protocol of one submit()
C3_Position(e) ==
    CASE e.op = "hasDependencies" -> 1
      [] e.op = "wait" -> 2
      [] e.op = "resetFenceAndDependencies" -> 3
      [] e.op = "earlyTransfer" -> 4
      [] e.op = "record" ->
            4 + (CHOOSE p \in 1..Len(commandGraphs) : commandGraphs[p].id = e.arg)
      [] e.op = "lateTransfer" -> 5 + Len(commandGraphs)
      [] e.op = "queueSubmit" -> 6 + Len(commandGraphs)

C3_Positions == {C3_Position(trace[i]) : i \in 1..Len(trace)}

\* C3: the calls of one submit() are made in the order start, early transfer,
\* record of every command graph in list order, late transfer, queue submit,
\* each at most once; the queue submit follows a successful late transfer; a
\* successful submit() made all of them but possibly the wait and the queue
\* submit.
C3_ProtocolOrder ==
    /\ \A i \in 1..(Len(trace) - 1) :
          C3_Position(trace[i]) < C3_Position(trace[i + 1])
    /\ \A i \in 1..Len(trace) :
          trace[i].op = "queueSubmit" =>
              /\ i > 1
              /\ trace[i - 1].op = "lateTransfer"
              /\ trace[i - 1].res = VK_SUCCESS
    /\ (pc = "idle" /\ result = VK_SUCCESS) =>
          /\ {1, 4, 5 + Len(commandGraphs)} \subseteq C3_Positions
          /\ \A p \in 1..Len(commandGraphs) : (4 + p) \in C3_Positions

\* a successful submit() over two command graphs that waited and submitted
C3_Witness ==
    /\ pc = "idle"
    /\ result = VK_SUCCESS
    /\ Len(commandGraphs) = 2
    /\ HasCall(trace, "wait")
    /\ Len(recordedCommandBuffers) = 2
    /\ Last(trace).op = "queueSubmit"

\* C4: submit() returns the first non-success status of the wait, the early
\* transfer, the late transfer or the queue submit and makes no call after
\* it; no call is repeated; a failed late transfer leaves the current fence
\* without new dependencies and nothing is handed to the queue.
C4_FirstErrorReturned ==
    /\ \A i \in 1..(Len(trace) - 1) : ~Failed(trace[i])
    /\ \A i \in 1..Len(trace) : \A j \in (i + 1)..Len(trace) :
          trace[i].op = trace[j].op =>
              (trace[i].op = "record" /\ trace[i].arg # trace[j].arg)
    /\ (trace # <<>> /\ Failed(Last(trace))) => (pc = "idle" /\ result = Last(trace).res)
    /\ (pc = "idle" /\ trace # <<>> /\ ~Failed(Last(trace))) => result = VK_SUCCESS
    /\ pc # "idle" => result = NoResult
    /\ (trace # <<>> /\ Last(trace).op = "lateTransfer" /\ Failed(Last(trace))) =>
          /\ ~HasDependencies(Fence(0))
          /\ ~submitInfo.issued

\* the late transfer failed after command buffers had been recorded
C4_Witness ==
    /\ pc = "idle"
    /\ trace # <<>>
    /\ Last(trace).op = "lateTransfer"
    /\ Failed(Last(trace))
    /\ result \in ErrorCodes
    /\ recordedCommandBuffers # <<>>

\* C5: after the k-th advance() index(0) = (k-1) mod N, and index(j) is the
\* sentinel N for every j >= N.
C5_CurrentIndexCycles ==
    /\ numAdvances >= 1 => Index(0) = (numAdvances - 1) % numBuffers
    /\ \A j \in numBuffers..(numBuffers + MaxProbe) : Index(j) = numBuffers

\* three buffers, five advances: the current slot wrapped around to 1
C5_Witness ==
    /\ numBuffers = 3
    /\ numAdvances = 5
    /\ Index(0) = 1
    /\ Index(3) = 3

\* C6: after k >= 1 advances index(j) = (k-1-j) mod N for j < min(k, N) and the
\* sentinel N for every j >= min(k, N).
C6_RollingWindow ==
    numAdvances >= 1 =>
        /\ \A j \in 0..(Min(numAdvances, numBuffers) - 1) :
              Index(j) = (numAdvances - 1 - j) % numBuffers
        /\ \A j \in Min(numAdvances, numBuffers)..(numBuffers + MaxProbe) :
              Index(j) = numBuffers

\* the scenario N = 3, k = 5
C6_Witness ==
    /\ numBuffers = 3
    /\ numAdvances = 5
    /\ Index(0) = 1
    /\ Index(1) = 0
    /\ Index(2) = 2

\* C7: fence(k) is the fence stored at slot index(k) when index(k) is a slot,
\* and none when it is the sentinel, in particular for every k >= N.
C7_FenceFollowsIndex ==
    \A k \in Probes :
        /\ Index(k) < numBuffers => Fence(k) = _fences[Index(k)]
        /\ Index(k) >= numBuffers => Fence(k) = NullFence
        /\ k >= numBuffers => Fence(k) = NullFence

\* the current frame uses slot 1, the previous frame used slot 0
C7_Witness ==
    /\ numBuffers >= 2
    /\ Index(0) = 1
    /\ Fence(0) = _fences[1]
    /\ Fence(1) = _fences[0]
    /\ Fence(numBuffers) = NullFence
    /\ HasDependencies(Fence(1))

\* C8: the index ring and the fence list have numBuffers entries in every
\* state, and _currentFrameIndex is the sentinel exactly before the first
\* advance() and a slot of 0..N-1 afterwards.
C8_RingShape ==
    /\ DOMAIN _indices = 0..(numBuffers - 1)
    /\ DOMAIN _fences = 0..(numBuffers - 1)
    /\ (_currentFrameIndex = numBuffers) <=> (numAdvances = 0)
    /\ numAdvances > 0 => _currentFrameIndex \in 0..(numBuffers - 1)
    /\ \A i \in DOMAIN _indices : _indices[i] \in 0..numBuffers

\* the ring wrapped around after submissions on every slot
C8_Witness ==
    /\ numAdvances > numBuffers
    /\ _currentFrameIndex = 0
    /\ HasCall(trace, "queueSubmit")
    /\ \A f \in DOMAIN dependentCommandBuffers : HasDependencies(f)

\* C9: every step other than advance() leaves index(k) and fence(k) as they
\* were for every k: start, record and finish, on success or on error, do not
\* change the ring, the current frame index or the fences of the slots.
C9_RingStableBetweenAdvances ==
    [][numAdvances' = numAdvances =>
          /\ UNCHANGED ringVars
          /\ \A k \in Probes : Index(k)' = Index(k) /\ Fence(k)' = Fence(k)
      ]_vars

\* a submit() whose queue submit failed, with the window of two frames intact
C9_Witness ==
    /\ pc = "idle"
    /\ trace # <<>>
    /\ Last(trace).op = "queueSubmit"
    /\ Failed(Last(trace))
    /\ Index(0) = 1
    /\ Index(1) = 0

\* C10: when the current fence has no dependencies start() calls neither wait
\* nor resetFenceAndDependencies and returns success, so that submit() goes on
\* to the early transfer.
C10_NoWaitWithoutDependencies ==
    (trace # <<>> /\ trace[1].op = "hasDependencies" /\ trace[1].res = "false") =>
        /\ ~HasCall(trace, "wait")
        /\ ~HasCall(trace, "resetFenceAndDependencies")
        /\ \/ pc = "early" /\ result = NoResult /\ Len(trace) = 1
           \/ Len(trace) >= 2 /\ trace[2].op = "earlyTransfer"

\* start() returned at once on a fresh fence while the other fence is in flight
C10_Witness ==
    /\ pc = "early"
    /\ trace = <<Event("hasDependencies", Fence(0), "false")>>
    /\ \E f \in DOMAIN inflight : inflight[f] = 1

\* finish() returns: the step that takes the task from "finish" back to "idle"
FinishStep == pc = "finish" /\ pc' = "idle"

\* the calls made by the step being taken
StepTrace == SubSeq(trace', Len(trace) + 1, Len(trace'))

\* C11 as stated: finish() called with no recorded command buffer submits
\* nothing to the queue, returns success, and leaves the dependency lists of
\* the fences and the wait lists of both transfer tasks as they were.
C11_IdleFinishAlwaysSucceeds ==
    [][(FinishStep /\ recordedCommandBuffers = <<>>) =>
          /\ ~HasCall(StepTrace, "queueSubmit")
          /\ result' = VK_SUCCESS
          /\ UNCHANGED <<dependentCommandBuffers, dependentSemaphores>>
          /\ UNCHANGED <<earlyWaitSemaphores, lateWaitSemaphores>>]_vars

\* C11 amended: finish() called with no recorded command buffer makes the
\* late transfer its only call and returns that call's status (success unless
\* the late transfer failed); it submits nothing to the queue, leaves the
\* dependency lists of the fences as they were and pushes nothing on the wait
\* list of either transfer task.
C11_IdleFinishSubmitsNothing ==
    [][(FinishStep /\ recordedCommandBuffers = <<>>) =>
          /\ Len(StepTrace) = 1
          /\ StepTrace[1].op = "lateTransfer"
          /\ result' = StepTrace[1].res
          /\ ~submitInfo'.issued
          /\ UNCHANGED <<dependentCommandBuffers, dependentSemaphores>>
          /\ UNCHANGED earlyWaitSemaphores
          /\ lateWaitSemaphores' \in {lateWaitSemaphores, <<>>}]_vars

\* finish() returned the late transfer's error with nothing recorded, while
\* the early transfer task holds a consumer semaphore of an earlier frame
C11_Witness ==
    /\ pc = "idle"
    /\ trace # <<>>
    /\ Last(trace).op = "lateTransfer"
    /\ result \in ErrorCodes
    /\ recordedCommandBuffers = <<>>
    /\ earlyWaitSemaphores # <<>>

\* the wait list and the wait stages of the last submission, when the windows
\* that gave their image available semaphore are those numbered in chosen:
\* the transfer completed semaphores of this frame, early before late, then
\* the chosen windows in the order of the task's list, then the task's wait
\* semaphores, each with its own stage mask at the same position
C12_WaitsAre(chosen) ==
    LET waits == submitInfo.waits
        nEarly == IF earlyCompleted THEN 1 ELSE 0
        nTransfers == nEarly + (IF lateCompleted THEN 1 ELSE 0)
        nWindows == Cardinality(chosen)
    IN  /\ Len(waits) = nTransfers + nWindows + Len(waitSemaphores)
        /\ earlyCompleted => waits[1] = "earlyTransferCompleted"
        /\ lateCompleted => waits[nEarly + 1] = "lateTransferCompleted"
        /\ \A i \in chosen :
              waits[nTransfers + Cardinality({j \in chosen : j <= i})]
                  = ImageAvailable(windows[i])
        /\ \A k \in 1..Len(waitSemaphores) :
              waits[nTransfers + nWindows + k] = waitSemaphores[k]
        /\ Len(submitInfo.stages) = Len(waits)
        /\ \A i \in 1..Len(waits) : submitInfo.stages[i] = StageOf(waits[i])

\* C12 as stated: a submission of finish() waits, in this order, on the early
\* and the late transfer completed semaphore produced this frame, on the
\* image available semaphore of every window of the task, and on every wait
\* semaphore of the task; the i-th wait stage is the stage of the i-th wait.
C12_WaitsOnEveryWindow ==
    submitInfo.issued => C12_WaitsAre(1..Len(windows))

\* C12 amended: as stated, except that the windows waited on are the windows
\* whose image index is within their frames when finish() runs; a window
\* without an acquired image is skipped.
C12_WaitsOnAcquiredWindows ==
    submitInfo.issued =>
        /\ submitInfo.acquired \subseteq 1..Len(windows)
        /\ C12_WaitsAre(submitInfo.acquired)

\* a submission after both transfers completed, by a task with two windows
\* of which only the second had an image, and with two wait semaphores
C12_Witness ==
    /\ submitInfo.issued
    /\ earlyCompleted
    /\ lateCompleted
    /\ Len(windows) = 2
    /\ submitInfo.acquired = {2}
    /\ Len(waitSemaphores) = 2

\* the elements of a sequence
Elements(seq) == {seq[i] : i \in 1..Len(seq)}

\* C13: a submission of finish() signals the consumer completed semaphore of
\* each transfer task whose completed semaphore it waits on, early before
\* late, followed by every signal semaphore of the task; building it pushes
\* that consumer completed semaphore once on the wait list of exactly those
\* transfer tasks (the late list being the one the late transfer left).
C13_SignalsAndConsumerWaits ==
    [][(FinishStep /\ HasCall(StepTrace, "queueSubmit")) =>
          LET signals == submitInfo'.signals
              early == "earlyTransferCompleted" \in Elements(submitInfo'.waits)
              late == "lateTransferCompleted" \in Elements(submitInfo'.waits)
              nEarly == IF early THEN 1 ELSE 0
              nTransfers == nEarly + (IF late THEN 1 ELSE 0)
          IN  /\ Len(signals) = nTransfers + Len(signalSemaphores)
              /\ early => signals[1] = "earlyTransferConsumerCompleted"
              /\ late => signals[nEarly + 1] = "lateTransferConsumerCompleted"
              /\ \A k \in 1..Len(signalSemaphores) :
                    signals[nTransfers + k] = signalSemaphores[k]
              /\ earlyWaitSemaphores' =
                    IF early
                    THEN Append(earlyWaitSemaphores, "earlyTransferConsumerCompleted")
                    ELSE earlyWaitSemaphores
              /\ IF late
                 THEN \E left \in {lateWaitSemaphores, <<>>} :
                        lateWaitSemaphores' =
                            Append(left, "lateTransferConsumerCompleted")
                 ELSE lateWaitSemaphores' = lateWaitSemaphores]_vars

\* a submission with two signal semaphores in a frame where only the early
\* transfer completed, the late transfer task keeping an older consumer
C13_Witness ==
    /\ submitInfo.issued
    /\ earlyCompleted
    /\ ~lateCompleted
    /\ Len(signalSemaphores) = 2
    /\ submitInfo.signals = <<"earlyTransferConsumerCompleted", "extSignal", "extSignal2">>
    /\ lateWaitSemaphores = <<"lateTransferConsumerCompleted">>

\* C14: a submission of finish() hands the queue the recorded primary command
\* buffers, all of them and in recorded order; after it the current fence
\* depends on exactly the command buffers recorded by this submit(), primary
\* and secondary, and on the signal semaphores of the task.
C14_SubmittedAndDependentBuffers ==
    submitInfo.issued =>
        LET recorded == recordedCommandBuffers
            primaries == {i \in 1..Len(recorded) : recorded[i].level = PRIMARY}
            submitted == submitInfo.commandBuffers
        IN  /\ submitInfo.fence = Fence(0)
            /\ Len(submitted) = Cardinality(primaries)
            /\ \A i \in primaries :
                  submitted[Cardinality({j \in primaries : j <= i})] = recorded[i]
            /\ dependentCommandBuffers[Fence(0)] = recorded
            /\ dependentSemaphores[Fence(0)] = signalSemaphores

\* a submission of a secondary and a primary buffer on a fence that an
\* earlier submission had used and start() has released
C14_Witness ==
    /\ submitInfo.issued
    /\ HasCall(trace, "resetFenceAndDependencies")
    /\ Len(recordedCommandBuffers) = 2
    /\ recordedCommandBuffers[1].level = SECONDARY
    /\ recordedCommandBuffers[2].level = PRIMARY
    /\ signalSemaphores # <<>>

\* C20: finish() never issues an empty submission: a submission handed to the
\* queue holds at least one command buffer, whatever the levels of the
\* recorded command buffers.
C20_NoEmptySubmission ==
    submitInfo.issued => submitInfo.commandBuffers # <<>>

\* C15: after pack() with a ambient, d directional, p point and s spot lights
\* collected, exactly 1 + a + 2d + 2p + 3s vec4s of lightData have been
\* written, from slot 0 on without a gap: the four counts in slot 0, then one
\* vec4 per ambient light, two per directional light, two per point light
\* and three per spot light, the categories in this order.
C15_PackedLayout ==
    lastCall = "pack" =>
        LET a == Len(ambientLights)
            d == Len(directionalLights)
            p == Len(pointLights)
            s == Len(spotLights)
            total == 1 + a + 2 * d + 2 * p + 3 * s
            firstDirectional == 1 + a
            firstPoint == firstDirectional + 2 * d
            firstSpot == firstPoint + 2 * p
        IN  /\ light_itr = total
            /\ 0..(total - 1) \subseteq DOMAIN lightData
            /\ lightData[0] = CountsVec(a, d, p, s)
            /\ \A k \in 1..a : lightData[k] = LightVec("color", ambientLights[k])
            /\ \A k \in 1..d :
                  LET slot == firstDirectional + 2 * (k - 1)
                  IN  /\ lightData[slot] = LightVec("color", directionalLights[k])
                      /\ lightData[slot + 1] = LightVec("direction", directionalLights[k])
            /\ \A k \in 1..p :
                  LET slot == firstPoint + 2 * (k - 1)
                  IN  /\ lightData[slot] = LightVec("color", pointLights[k])
                      /\ lightData[slot + 1] = LightVec("position", pointLights[k])
            /\ \A k \in 1..s :
                  LET slot == firstSpot + 3 * (k - 1)
                  IN  /\ lightData[slot] = LightVec("color", spotLights[k])
                      /\ lightData[slot + 1] = LightVec("position_cosInner", spotLights[k])
                      /\ lightData[slot + 2] = LightVec("direction_cosOuter", spotLights[k])

\* C16: clear() empties the four containers and leaves lightData as it is;
\* the pack() that follows it with no light collected writes one vec4, the
\* zero counts in slot 0, and leaves every other slot as it was.
C16_ClearThenPack ==
    [][/\ lastCall' = "clear" =>
            /\ ambientLights' = <<>>
            /\ directionalLights' = <<>>
            /\ pointLights' = <<>>
            /\ spotLights' = <<>>
            /\ lightData' = lightData
       /\ (lastCall = "clear" /\ lastCall' \notin {"clear", "add"}) =>
            /\ lastCall' = "pack"
            /\ light_itr' = 1
            /\ lightData'[0] = CountsVec(0, 0, 0, 0)
            /\ \A i \in DOMAIN lightData : i # 0 => lightData'[i] = lightData[i]
            /\ DOMAIN lightData' = DOMAIN lightData]_vars

\* pack() has run on the emptied containers and the lights of the frame
\* before are still in the slots after the counts
C16_Witness ==
    /\ lastCall = "pack"
    /\ light_itr = 1
    /\ ambientLights = <<>> /\ directionalLights = <<>>
    /\ pointLights = <<>> /\ spotLights = <<>>
    /\ lightData[0] = ZeroVec
    /\ \E i \in DOMAIN lightData : i > 1 /\ lightData[i].kind = "direction"

\* an updateTasks call returns
UpdateStep == numUpdates' = numUpdates + 1

\* C17: over the calls of updateTasks on one list of at least one task, a
\* pager is created, and started once, only by a call that reports paged
\* content while no task holds a pager, so at most one is ever created and
\* no pager is started again; and after a call that reports paged content
\* every task that held no pager holds the shared one: the pager of the first
\* task that held one, or else the pager just created.
C17_PagerCreatedOnceAndShared ==
    [][(UpdateStep /\ tasks # <<>>) =>
          LET holders == {t \in 1..Len(tasks) : tasks[t].databasePager # NoPager}
              paged == compileResult'.containsPagedLOD
              createdNow == (Len(pagers) + 1)..Len(pagers')
              shared == IF holders = {} THEN Len(pagers) + 1
                        ELSE tasks[CHOOSE t \in holders :
                                     \A u \in holders : t <= u].databasePager
          IN  /\ createdNow # {} <=> (paged /\ holders = {})
              /\ Cardinality(createdNow) <= 1
              /\ \A id \in createdNow : pagers'[id].starts = 1
              /\ \A id \in 1..Len(pagers) : pagers'[id] = pagers[id]
              /\ Len(pagers') <= Len(pagers) + 1
              /\ (\E id \in 1..Len(pagers) : id # ApplicationPager) => createdNow = {}
              /\ paged =>
                    \A t \in 1..Len(tasks) :
                        IF t \in holders
                        THEN tasks'[t].databasePager = tasks[t].databasePager
                        ELSE tasks'[t].databasePager = shared]_vars

\* C19: an updateTasks call leaves every command graph of every task with the
\* larger of its maxSlot before the call and the maxSlot of the compile
\* result: a maxSlot never decreases and is at least the largest maxSlot
\* reported by any call so far.
C19_MaxSlotNeverDecreases ==
    [][UpdateStep =>
          /\ Len(tasks') = Len(tasks)
          /\ \A t \in 1..Len(tasks) :
                /\ Len(tasks'[t].maxSlots) = Len(tasks[t].maxSlots)
                /\ \A g \in 1..Len(tasks[t].maxSlots) :
                      LET before == tasks[t].maxSlots[g]
                          after == tasks'[t].maxSlots[g]
                          reported == compileResult'.maxSlot
                      IN  /\ after >= before
                          /\ after >= reported
                          /\ after \in {before, reported}
                          /\ after >= maxReported']_vars

\* after a call that reported a smaller maxSlot than an earlier call, a
\* command graph that started at 0 still has the largest maxSlot reported
C19_Witness ==
    /\ numUpdates >= 2
    /\ Len(tasks) = 2
    /\ Len(tasks[2].maxSlots) = 2
    /\ compileResult.maxSlot > 0
    /\ compileResult.maxSlot < maxReported
    /\ tasks[2].maxSlots[2] = maxReported

\* C18: after an updateTasks call every bin number that the compile result
\* lists for a view has a bin in the bins of that view; the bins the view had
\* are all kept, as they were and where they were; a bin is added, once, only
\* for a listed number that no bin of the view had (a call that finds all its
\* numbers adds nothing), and it sorts ascending if its number is negative,
\* not at all if it is zero, descending if it is positive.
C18_BinsCreatedWhenMissing ==
    [][UpdateStep =>
          \A v \in Views :
              LET before == viewBins[v]
                  after == viewBins'[v]
                  listed == IF v \in DOMAIN compileResult'.views
                            THEN compileResult'.views[v] ELSE {}
                  added == (Len(before) + 1)..Len(after)
                  numbersBefore == {before[i].binNumber : i \in 1..Len(before)}
              IN  /\ \A b \in listed : \E i \in 1..Len(after) : after[i].binNumber = b
                  /\ Len(after) >= Len(before)
                  /\ \A i \in 1..Len(before) : after[i] = before[i]
                  /\ \A i \in added :
                        /\ after[i].binNumber \in listed \ numbersBefore
                        /\ \A j \in added :
                              after[j].binNumber = after[i].binNumber => j = i
                        /\ after[i].binNumber < 0 => after[i].sortOrder = ASCENDING
                        /\ after[i].binNumber = 0 => after[i].sortOrder = NO_SORT
                        /\ after[i].binNumber > 0 => after[i].sortOrder = DESCENDING
                  /\ listed \subseteq numbersBefore => after = before]_vars

\* two calls: view1, created without bins, has got a bin for -1 and for 1;
\* view2 keeps the two bins of number 1 it was created with, got a bin for 0
\* from the first call and a bin for -1, and none for 1, from the second
C18_Witness ==
    /\ numUpdates = 2
    /\ DOMAIN compileResult.views = {"view2"}
    /\ compileResult.views["view2"] = {-1, 1}
    /\ viewBins["view1"] = <<Bin(-1, ASCENDING), Bin(1, DESCENDING)>>
    /\ viewBins["view2"] = <<Bin(1, ASCENDING), Bin(1, NO_SORT),
                             Bin(0, NO_SORT), Bin(-1, ASCENDING)>>

\* C21: pack() never writes outside of lightData: whatever lights the four
\* containers hold and whatever maxNumberLights was at construction, every
\* vec4 that pack() writes is written at an offset below maxNumberLights.
C21_PackStaysInsideLightData ==
    lastCall \in {"pack", "crashed"} =>
        \A offset \in 0..(light_itr - 1) : offset < maxNumberLights

\* C22: a fence that has dependencies has been handed to the queue in an
\* accepted submission since its dependencies were last released: that
\* submission is still in flight or the device has signalled the fence, so
\* the unbounded wait of start() is only issued on a fence that the device
\* signals; also after a queue submit that reported an error.
C22_DependenciesImplySubmitted ==
    \A f \in DOMAIN inflight :
        HasDependencies(f) => (inflight[f] > 0 \/ signaled[f])

\* ------------------------------------------------------- specifications
HostAdvance ==
    /\ numAdvances < MaxAdvances
    /\ Advance
    /\ UNCHANGED <<lightVars, updateVars>>

HostStart ==
    /\ \E waitResult \in QueueResults : Start(waitResult)
    /\ UNCHANGED <<lightVars, updateVars>>

HostEarlyTransfer ==
    /\ \E outcome \in TransferOutcomes : EarlyTransfer(outcome)
    /\ UNCHANGED <<lightVars, updateVars>>

HostRecord ==
    /\ \E outcomes \in [1..Len(commandGraphs) -> RecordOutcomes] : Record(outcomes)
    /\ UNCHANGED <<lightVars, updateVars>>

HostFinish ==
    /\ \E lateOutcome \in TransferOutcomes, acquired \in SUBSET (1..Len(windows)),
          queueResult \in QueueResults : Finish(lateOutcome, acquired, queueResult)
    /\ UNCHANGED <<lightVars, updateVars>>

Device ==
    /\ \E f \in DOMAIN inflight : DeviceComplete(f)
    /\ UNCHANGED <<lightVars, updateVars>>

Next ==
    \/ HostAdvance
    \/ HostStart
    \/ HostEarlyTransfer
    \/ HostRecord
    \/ HostFinish
    \/ Device

Spec == Init /\ [][Next]_vars

\* the ring alone: a host that only calls advance(), with more buffers
InitRing == Constructed(MaxRingBuffers) /\ ViewDependentStateInit({1}) /\ NoTasks

RingAdvance ==
    /\ numAdvances < MaxRingAdvances
    /\ Advance
    /\ UNCHANGED <<lightVars, updateVars>>

NextRing == RingAdvance

SpecRing == InitRing /\ [][NextRing]_vars

\* the submit protocol on a single fence, over the lists an application can
\* give the task: no, one or two windows, wait and signal semaphores
InitSubmit ==
    /\ ConstructedWith({1},
                    {<<>>, <<"window">>, <<"window", "window2">>},
                    {<<>>, <<"extWait">>, <<"extWait", "extWait2">>},
                    {<<>>, <<"extSignal">>, <<"extSignal", "extSignal2">>})
    /\ ViewDependentStateInit({1})
    /\ NoTasks

SpecSubmit == InitSubmit /\ [][Next]_vars

\* the ViewDependentState of a view over the frames: the traversal collects
\* lights, pack() writes them to lightData, clear() empties the containers;
\* the task is left as constructed
InitLights ==
    /\ ConstructedWith({1}, {<<>>}, {<<>>}, {<<>>})
    /\ commandGraphs = <<>>
    /\ ViewDependentStateInit(1..MaxNumberLights)
    /\ NoTasks

TraverseLight ==
    /\ \E category \in {"ambient", "directional", "point", "spot"}, light \in Lights :
          AddLight(category, light)
    /\ UNCHANGED <<taskVars, updateVars>>

FrameClear == Clear /\ UNCHANGED <<taskVars, updateVars>>

FramePack ==
    /\ \E outcome \in {"returns", "overwrites", "crashes"} : Pack(outcome)
    /\ UNCHANGED <<taskVars, updateVars>>

NextLights ==
    \/ TraverseLight
    \/ FrameClear
    \/ FramePack

SpecLights == InitLights /\ [][NextLights]_vars

\* a task as updateTasks can find it: without or with command graphs, whose
\* maxSlot is 0 or 1, and without or with the pager of the application
TaskShapes ==
    [earlyData : {FALSE}, lateData : {FALSE},
     maxSlots : {<<>>, <<1, 0>>},
     databasePager : {NoPager, ApplicationPager}]

\* the compile results given to updateTasks in SpecTasks: any dynamic data,
\* maxSlot and paged content, with the bin 0 of one view
TaskResults ==
    [earlyDynamicData : BOOLEAN, lateDynamicData : BOOLEAN, maxSlot : 0..MaxSlot,
     containsPagedLOD : BOOLEAN,
     views : {[v \in {"view1"} |-> {0}]}]

\* updateTasks called again and again on one list of tasks
InitTasks ==
    /\ ConstructedWith({1}, {<<>>}, {<<>>}, {<<>>})
    /\ commandGraphs = <<>>
    /\ ViewDependentStateInit({1})
    /\ UpdateTasksInit(UNION {[1..n -> TaskShapes] : n \in 0..MaxTasks}, {<<>>})

UpdateCall ==
    /\ numUpdates < MaxUpdates
    /\ \E compiled \in TaskResults : UpdateTasks(compiled)
    /\ UNCHANGED <<taskVars, lightVars>>

NextTasks == UpdateCall

SpecTasks == InitTasks /\ [][NextTasks]_vars

\* the bin numbers that compiled content refers to
BinNumbers == {-1, 0, 1}

\* the bins a view has before the first updateTasks: none, or two bins of
\* one number with sort orders chosen by the application
InitBinLists == {<<>>, <<Bin(1, ASCENDING), Bin(1, NO_SORT)>>}

\* the compile results given to updateTasks in SpecBins: any set of bin
\* numbers for any of the views
BinResults ==
    [earlyDynamicData : {TRUE}, lateDynamicData : {FALSE}, maxSlot : {1},
     containsPagedLOD : {TRUE},
     views : UNION {[present -> SUBSET BinNumbers] : present \in SUBSET Views}]

\* updateTasks called again and again for the views of one task
InitBins ==
    /\ ConstructedWith({1}, {<<>>}, {<<>>}, {<<>>})
    /\ commandGraphs = <<>>
    /\ ViewDependentStateInit({1})
    /\ UpdateTasksInit({<<[earlyData |-> FALSE, lateData |-> FALSE,
                           maxSlots |-> <<0>>, databasePager |-> NoPager]>>},
                       InitBinLists)

BinsCall ==
    /\ numUpdates < MaxUpdates
    /\ \E compiled \in BinResults : UpdateTasks(compiled)
    /\ UNCHANGED <<taskVars, lightVars>>

NextBins == BinsCall

SpecBins == InitBins /\ [][NextBins]_vars
====
